---- MODULE Spec2Model ----
(***************************************************************************)
(* A model of dom5: the mutation engine of src/dom5.ts (insertNode,        *)
(* replace, remove, insertBefore, append) and the lazy iterators and       *)
(* walkers of src/src/iteration.ts and src/src/walking.ts, over a forest   *)
(* of parse5 nodes.                                                        *)
(*                                                                         *)
(* A node is a number.  Its fields are the two functions childNodes and    *)
(* parentNode.  JavaScript's null and undefined are kept apart, because    *)
(* the code tells them apart: the constructors and remove write null,      *)
(* ancestors and previousSiblings test against undefined.                  *)
(***************************************************************************)
EXTENDS Integers, Sequences, FiniteSets, TLC

\* The number of nodes of the forest.
NumNodes == 5

\* The text nodes a forest of text starts with, besides the text node of Node.
NumTexts == 2

\* The text nodes newTextNode can still build.
NumFresh == 6

\* JavaScript's null, as the constructors and remove write it to parentNode.
NULL == 0
\* JavaScript's undefined: the value of a field the object does not have.
UNDEFINED == -1

Node == 1 .. NumNodes

\* The nodes of a forest of text: Node, more text nodes, and the text nodes
\* that newTextNode has yet to build.
AllNode == 1 .. (NumNodes + NumTexts + NumFresh)

FreshNode == (NumNodes + NumTexts + 1) .. (NumNodes + NumTexts + NumFresh)

(***************************************************************************)
(* nodeName of each node.  Node 1 is a document as the parser builds it,   *)
(* node 2 a fragment, node 3 a text node, node 5 a template element and    *)
(* every other node a div element; the nodes past NumNodes are text nodes. *)
(***************************************************************************)
nodeName(n) ==
  CASE n = 1 -> "#document"
    [] n = 2 -> "#document-fragment"
    [] n = 3 -> "#text"
    [] n = 5 -> "template"
    [] n > NumNodes -> "#text"
    [] OTHER -> "div"

\* treeAdapters.default.getTemplateContent(node): the template's content
\* fragment, here fragment 2.
getTemplateContent(n) == 2

isDocumentFragment(n) == nodeName(n) = "#document-fragment"

isTextNode(n) == nodeName(n) = "#text"

isDocument(n) == nodeName(n) = "#document"

\* newElement writes tagName; documents, fragments and text nodes have none.
HasTagName(n) == ~(isDocument(n) \/ isDocumentFragment(n) \/ isTextNode(n))

\* isElement(node): node.nodeName === node.tagName
isElement(n) == HasTagName(n)

\* A text node is built without a childNodes field; every other kind has one.
HasChildNodes(n) == ~isTextNode(n)

\* A value that JavaScript's `if (v)` takes: a node, not null or undefined.
Truthy(v) == v \in Node

VARIABLES
  childNodes,   \* childNodes[n]: the children sequence of n (<<>> for text)
  parentNode,   \* parentNode[n]: a node, NULL or UNDEFINED
  value,        \* value[n]: the text of text node n, for the text nodes built
  pre,          \* the tree before the last call
  last          \* the last call: its name, arguments and outcome

vars == <<childNodes, parentNode, value, pre, last>>

\* The tree as a value, so that calls compose.
Tree == [cn |-> childNodes, pn |-> parentNode]

\* The tree with the text of its text nodes.
TextTree == [cn |-> childNodes, pn |-> parentNode, val |-> value]

Min(a, b) == IF a < b THEN a ELSE b

Max(a, b) == IF a > b THEN a ELSE b

\* Array.prototype.indexOf: the 0-based index of the first x, or -1.
IndexOf(s, x) ==
  IF \E i \in 1 .. Len(s) : s[i] = x
  THEN (CHOOSE i \in 1 .. Len(s) : s[i] = x /\ \A j \in 1 .. (i - 1) : s[j] # x) - 1
  ELSE -1

\* Array.prototype.splice(start, deleteCount, ...items): a negative start
\* counts from the end, start and deleteCount are clamped to the array.
Splice(s, start, deleteCount, items) ==
  LET len == Len(s)
      st == IF start < 0 THEN Max(len + start, 0) ELSE Min(start, len)
      dc == Min(Max(deleteCount, 0), len - st)
  IN SubSeq(s, 1, st) \o items \o SubSeq(s, st + dc + 1, len)

\* arr[index] for a 0-based index: UNDEFINED outside the array.
At(s, index) ==
  IF index >= 0 /\ index < Len(s) THEN s[index + 1] ELSE UNDEFINED

\* remove with the splice one place too far: `splice(idx + 1, 1)`.
removeNextSibling(t, node) ==
  LET parent == t.pn[node]
      cn1 == IF Truthy(parent)
             THEN [t.cn EXCEPT ![parent] = Splice(@, IndexOf(@, node) + 1, 1, <<>>)]
             ELSE t.cn
  IN [cn |-> cn1, pn |-> [t.pn EXCEPT ![node] = NULL]]

(***************************************************************************)
(* remove(node): splice node out of its parent's children, if it has a     *)
(* parent, and write null to its parentNode.  An index of -1 is spliced    *)
(* as it is.                                                               *)
(***************************************************************************)
remove(t, node) ==
  LET parent == t.pn[node]
      cn1 == IF Truthy(parent)
             THEN [t.cn EXCEPT ![parent] = Splice(@, IndexOf(@, node), 1, <<>>)]
             ELSE t.cn
  IN [cn |-> cn1, pn |-> [t.pn EXCEPT ![node] = NULL]]

\* insertNode without `remove(newNode)`: the node stays where it was as well.
insertNodeKeepsOldPlace(t, parent, index, newNode, replace) ==
  LET newNodes == IF isDocumentFragment(newNode) THEN t.cn[newNode] ELSE <<newNode>>
      t1 == IF isDocumentFragment(newNode) THEN [t EXCEPT !.cn[newNode] = <<>>] ELSE t
      removedNode == IF replace THEN At(t1.cn[parent], index) ELSE NULL
      cn2 == [t1.cn EXCEPT ![parent] =
                Splice(@, index, IF replace THEN 1 ELSE 0, newNodes)]
      pn2 == [n \in Node |->
                IF \E i \in 1 .. Len(newNodes) : newNodes[i] = n
                THEN parent ELSE t1.pn[n]]
      pn3 == IF Truthy(removedNode) THEN [pn2 EXCEPT ![removedNode] = NULL] ELSE pn2
  IN [cn |-> cn2, pn |-> pn3]

\* insertNode without `newNode.childNodes = []`: the fragment keeps its children.
insertNodeKeepsFragment(t, parent, index, newNode, replace) ==
  LET newNodes == IF isDocumentFragment(newNode) THEN t.cn[newNode] ELSE <<newNode>>
      t1 == IF isDocumentFragment(newNode) THEN t ELSE remove(t, newNode)
      removedNode == IF replace THEN At(t1.cn[parent], index) ELSE NULL
      cn2 == [t1.cn EXCEPT ![parent] =
                Splice(@, index, IF replace THEN 1 ELSE 0, newNodes)]
      pn2 == [n \in Node |->
                IF \E i \in 1 .. Len(newNodes) : newNodes[i] = n
                THEN parent ELSE t1.pn[n]]
      pn3 == IF Truthy(removedNode) THEN [pn2 EXCEPT ![removedNode] = NULL] ELSE pn2
  IN [cn |-> cn2, pn |-> pn3]

(***************************************************************************)
(* insertNode(parent, index, newNode, replace).  A fragment gives its      *)
(* children and is emptied; any other node is removed from where it is.    *)
(* removedNode is read after that, at the index computed before it.        *)
(***************************************************************************)
insertNode(t, parent, index, newNode, replace) ==
  LET newNodes == IF isDocumentFragment(newNode) THEN t.cn[newNode] ELSE <<newNode>>
      t1 == IF isDocumentFragment(newNode)
            THEN [t EXCEPT !.cn[newNode] = <<>>]
            ELSE remove(t, newNode)
      removedNode == IF replace THEN At(t1.cn[parent], index) ELSE NULL
      cn2 == [t1.cn EXCEPT ![parent] =
                Splice(@, index, IF replace THEN 1 ELSE 0, newNodes)]
      pn2 == [n \in Node |->
                IF \E i \in 1 .. Len(newNodes) : newNodes[i] = n
                THEN parent ELSE t1.pn[n]]
      pn3 == IF Truthy(removedNode) THEN [pn2 EXCEPT ![removedNode] = NULL] ELSE pn2
  IN [cn |-> cn2, pn |-> pn3]

\* replace(oldNode, newNode); the caller has checked that oldNode has a parent.
replace(t, oldNode, newNode) ==
  LET parent == t.pn[oldNode]
      index == IndexOf(t.cn[parent], oldNode)
  IN insertNode(t, parent, index, newNode, TRUE)

\* insertBefore(parent, oldNode, newNode)
insertBefore(t, parent, oldNode, newNode) ==
  insertNode(t, parent, IndexOf(t.cn[parent], oldNode), newNode, FALSE)

\* append(parent, newNode)
append(t, parent, newNode) ==
  insertNode(t, parent, Len(t.cn[parent]), newNode, FALSE)

(***************************************************************************)
(* The child accessors.  An accessor gives a node's children, or undefined *)
(* when the node has no childNodes field: [defined, nodes].                *)
(***************************************************************************)
\* defaultChildNodes that gives a template's content, as the walks did
\* before parse5 2.x.
defaultChildNodesEntersTemplate(t, node) ==
  IF nodeName(node) = "template"
  THEN [defined |-> TRUE, nodes |-> t.cn[getTemplateContent(node)]]
  ELSE [defined |-> HasChildNodes(node), nodes |-> t.cn[node]]

defaultChildNodes(t, node) ==
  [defined |-> HasChildNodes(node), nodes |-> t.cn[node]]

childNodesIncludeTemplate(t, node) ==
  IF nodeName(node) = "template"
  THEN [defined |-> TRUE, nodes |-> t.cn[getTemplateContent(node)]]
  ELSE [defined |-> HasChildNodes(node), nodes |-> t.cn[node]]

\* The accessors a caller may pass as getChildNodes, by name.
GetChildNodes == {"defaultChildNodes", "childNodesIncludeTemplate"}

getChildNodes(acc, t, node) ==
  IF acc = "childNodesIncludeTemplate"
  THEN childNodesIncludeTemplate(t, node)
  ELSE defaultChildNodes(t, node)

RECURSIVE depthFirstLastChildFirst(_, _, _), depthFirstEachBackwards(_, _, _)
\* depthFirst with the children taken from the last to the first.
depthFirstLastChildFirst(t, node, acc) ==
  LET c == getChildNodes(acc, t, node)
  IN IF ~c.defined THEN <<node>>
     ELSE <<node>> \o depthFirstEachBackwards(t, c.nodes, acc)

depthFirstEachBackwards(t, s, acc) ==
  IF s = <<>> THEN <<>>
  ELSE depthFirstLastChildFirst(t, s[Len(s)], acc)
         \o depthFirstEachBackwards(t, SubSeq(s, 1, Len(s) - 1), acc)

RECURSIVE depthFirst(_, _, _), depthFirstEach(_, _, _)
\* depthFirst(node, getChildNodes): node, then each child's walk in child order.
depthFirst(t, node, acc) ==
  LET c == getChildNodes(acc, t, node)
  IN IF ~c.defined THEN <<node>> ELSE <<node>> \o depthFirstEach(t, c.nodes, acc)

\* for (const child of childNodes) yield* depthFirst(child, getChildNodes)
depthFirstEach(t, s, acc) ==
  IF s = <<>> THEN <<>>
  ELSE depthFirst(t, Head(s), acc) \o depthFirstEach(t, Tail(s), acc)

\* reversedView(arr, initialIndex): arr[initialIndex], ..., arr[0].
reversedView(arr, initialIndex) ==
  [i \in 1 .. (initialIndex + 1) |-> arr[initialIndex + 2 - i]]

RECURSIVE depthFirstReversed(_, _), depthFirstReversedEach(_, _)
\* depthFirstReversed(node): each child's reversed walk in reverse child
\* order, then node.
depthFirstReversed(t, node) ==
  LET c == defaultChildNodes(t, node)
  IN IF c.defined
     THEN depthFirstReversedEach(t, reversedView(c.nodes, Len(c.nodes) - 1)) \o <<node>>
     ELSE <<node>>

depthFirstReversedEach(t, s) ==
  IF s = <<>> THEN <<>>
  ELSE depthFirstReversed(t, Head(s)) \o depthFirstReversedEach(t, Tail(s))

(***************************************************************************)
(* A generator is modelled by what it yields before it ends or raises:     *)
(* [seq, threw].                                                           *)
(***************************************************************************)
Gen(seq, threw) == [seq |-> seq, threw |-> threw]

RECURSIVE ancestors(_, _)
\* ancestors(node): node, its parent, ... while the current node is not
\* undefined.  null is not undefined: it is yielded, and reading its
\* parentNode then raises a TypeError.
ancestors(t, currNode) ==
  IF currNode = UNDEFINED THEN Gen(<<>>, FALSE)
  ELSE IF currNode = NULL THEN Gen(<<NULL>>, TRUE)
  ELSE LET rest == ancestors(t, t.pn[currNode])
       IN Gen(<<currNode>> \o rest.seq, rest.threw)

\* previousSiblings(node): the earlier siblings, nearest first.  A null
\* parent is not undefined, and reading its childNodes raises a TypeError;
\* a parent without childNodes or without node among them raises an Error.
previousSiblings(t, node) ==
  LET parent == t.pn[node]
  IN IF parent = UNDEFINED THEN Gen(<<>>, FALSE)
     ELSE IF parent = NULL THEN Gen(<<>>, TRUE)
     ELSE IF ~HasChildNodes(parent) THEN Gen(<<>>, TRUE)
     ELSE IF IndexOf(t.cn[parent], node) = -1 THEN Gen(<<>>, TRUE)
     ELSE Gen(reversedView(t.cn[parent], IndexOf(t.cn[parent], node) - 1), FALSE)

RECURSIVE iteratePrior(_, _)
\* iteratePrior(node): the reversed walks of the previous siblings, then the
\* parent, then the parent's priors.
iteratePrior(t, node) ==
  LET sibs == previousSiblings(t, node)
      parent == t.pn[node]
  IN IF sibs.threw THEN Gen(<<>>, TRUE)
     ELSE IF Truthy(parent)
     THEN LET rest == iteratePrior(t, parent)
          IN Gen(depthFirstReversedEach(t, sibs.seq) \o <<parent>> \o rest.seq, rest.threw)
     ELSE Gen(depthFirstReversedEach(t, sibs.seq), FALSE)

\* iteratePriorIncludingNode(node): node, then iteratePrior(node).
iteratePriorIncludingNode(t, node) ==
  LET rest == iteratePrior(t, node)
  IN Gen(<<node>> \o rest.seq, rest.threw)

(***************************************************************************)
(* A predicate is the set of nodes it holds of.  What it does when it is   *)
(* handed null is the predicate's own business: it may hold, not hold or   *)
(* raise (onNull).  An outcome is [ret, seq, threw].                       *)
(***************************************************************************)
Predicates == {{}, Node} \cup {{m} : m \in Node}

OnNull == {"true", "false", "throws"}

Ret(v) == [ret |-> v, seq |-> <<>>, threw |-> FALSE]

RetSeq(s) == [ret |-> NULL, seq |-> s, threw |-> FALSE]

Raise == [ret |-> UNDEFINED, seq |-> <<>>, threw |-> TRUE]

RECURSIVE findFrom(_, _, _, _)
findFrom(iter, predicate, onNull, i) ==
  IF i > Len(iter.seq) THEN (IF iter.threw THEN Raise ELSE Ret(NULL))
  ELSE IF iter.seq[i] = NULL /\ onNull = "throws" THEN Raise
  ELSE IF (iter.seq[i] = NULL /\ onNull = "true") \/ iter.seq[i] \in predicate
  THEN Ret(iter.seq[i])
  ELSE findFrom(iter, predicate, onNull, i + 1)

\* find(iter, predicate): the first value the predicate holds of, or null.
find(iter, predicate, onNull) == findFrom(iter, predicate, onNull, 1)

\* filter that starts from a new array whatever matches is.
filterIntoNewArray(iter, predicate, matches) ==
  IF iter.threw THEN Raise
  ELSE RetSeq(SelectSeq(iter.seq, LAMBDA v : v \in predicate))

\* filter(iter, predicate, matches): matches, then the values the predicate
\* holds of.
filter(iter, predicate, matches) ==
  IF iter.threw THEN Raise
  ELSE RetSeq(matches \o SelectSeq(iter.seq, LAMBDA v : v \in predicate))

\* nodeWalkPrior over iteratePriorIncludingNode, as nodeWalkAllPrior is.
nodeWalkPriorIncludingNode(t, node, predicate) ==
  LET result == find(iteratePriorIncludingNode(t, node), predicate, "false")
  IN IF ~result.threw /\ result.ret = NULL THEN Ret(UNDEFINED) ELSE result

\* nodeWalkPrior(node, predicate): find over iteratePrior(node).
nodeWalkPrior(t, node, predicate) ==
  LET result == find(iteratePrior(t, node), predicate, "false")
  IN IF ~result.threw /\ result.ret = NULL THEN Ret(UNDEFINED) ELSE result

\* nodeWalkAllPrior(node, predicate): filter over iteratePriorIncludingNode.
nodeWalkAllPrior(t, node, predicate) ==
  filter(iteratePriorIncludingNode(t, node), predicate, <<>>)

\* nodeWalkAncestors(node, predicate): find over ancestors(node).
nodeWalkAncestors(t, node, predicate, onNull) ==
  LET result == find(ancestors(t, node), predicate, onNull)
  IN IF ~result.threw /\ result.ret = NULL THEN Ret(UNDEFINED) ELSE result

\* nodeWalk(node, predicate, getChildNodes): find over depthFirst.
nodeWalk(t, node, predicate, acc) ==
  find(Gen(depthFirst(t, node, acc), FALSE), predicate, "false")

\* nodeWalkAll(node, predicate, matches, getChildNodes): filter over depthFirst.
nodeWalkAll(t, node, predicate, matches, acc) ==
  filter(Gen(depthFirst(t, node, acc), FALSE), predicate, matches)

\* AND(isElement, predicate), the predicates being the sets they hold of.
AND(p, q) == p \cap q

\* query without the element test.
queryAnyNode(t, node, predicate, acc) == nodeWalk(t, node, predicate, acc)

\* query(node, predicate, getChildNodes)
query(t, node, predicate, acc) ==
  LET elementPredicate == AND({n \in DOMAIN t.pn : isElement(n)}, predicate)
  IN nodeWalk(t, node, elementPredicate, acc)

\* queryAll(node, predicate, matches, getChildNodes)
queryAll(t, node, predicate, matches, acc) ==
  LET elementPredicate == AND({n \in DOMAIN t.pn : isElement(n)}, predicate)
  IN nodeWalkAll(t, node, elementPredicate, matches, acc)

RECURSIVE parentMatchesFrom(_, _, _, _)
\* The loop of parentMatches: while (parent !== undefined).  null is not
\* undefined: the predicate is handed null, and when it does not hold of it
\* reading null.parentNode raises a TypeError.
parentMatchesFrom(t, parent, predicateFn, onNull) ==
  IF parent = UNDEFINED THEN Ret(FALSE)
  ELSE IF parent = NULL THEN (IF onNull = "true" THEN Ret(TRUE) ELSE Raise)
  ELSE IF parent \in predicateFn THEN Ret(TRUE)
  ELSE parentMatchesFrom(t, t.pn[parent], predicateFn, onNull)

\* parentMatches(predicateFn)(node)
parentMatches(t, predicateFn, node, onNull) ==
  parentMatchesFrom(t, t.pn[node], predicateFn, onNull)

(***************************************************************************)
(* Text.  A text value is a sequence of characters, '' the empty one.  t   *)
(* is a tree with the text of its text nodes: [cn, pn, val].               *)
(***************************************************************************)
RECURSIVE dom5NodeWalkAll(_, _, _, _), dom5NodeWalkAllEach(_, _, _, _)
\* nodeWalkAll(node, predicate, matches) of dom5.ts: node if the predicate
\* holds of it, then the same for each of node.childNodes, if it has any.
dom5NodeWalkAll(t, node, predicate, matches) ==
  LET m1 == IF node \in predicate THEN Append(matches, node) ELSE matches
  IN IF HasChildNodes(node)
     THEN dom5NodeWalkAllEach(t, t.cn[node], predicate, m1)
     ELSE m1

dom5NodeWalkAllEach(t, s, predicate, matches) ==
  IF s = <<>> THEN matches
  ELSE dom5NodeWalkAllEach(t, Tail(s), predicate,
                           dom5NodeWalkAll(t, Head(s), predicate, matches))

RECURSIVE Join(_, _)
\* subtree.map(getTextContent).join('') for text nodes: their values in order.
Join(t, subtree) ==
  IF subtree = <<>> THEN <<>>
  ELSE t.val[Head(subtree)] \o Join(t, Tail(subtree))

\* getTextContent(node): a text node's value; for any other node the values
\* of the text nodes of nodeWalkAll(node, isTextNode), joined.  (The forest
\* has no comment nodes.)
getTextContent(t, node) ==
  IF isTextNode(node) THEN t.val[node]
  ELSE Join(t, dom5NodeWalkAll(t, node, {n \in DOMAIN t.pn : isTextNode(n)}, <<>>))

\* hasTextValue(value)(node)
hasTextValue(t, v, node) == getTextContent(t, node) = v

\* newTextNode(value): the node object it returns is a new one.
newTextNode(t) ==
  CHOOSE n \in FreshNode \ DOMAIN t.val :
    \A m \in FreshNode \ DOMAIN t.val : n <= m

RECURSIVE RangeText(_, _, _, _)
\* for (i = start; i <= end; i++) text += getTextContent(parent.childNodes[i])
RangeText(t, parent, start, end) ==
  IF start > end THEN <<>>
  ELSE getTextContent(t, At(t.cn[parent], start)) \o RangeText(t, parent, start + 1, end)

RECURSIVE RangeTextBackwards(_, _, _, _)
RangeTextBackwards(t, parent, start, end) ==
  IF start > end THEN <<>>
  ELSE getTextContent(t, At(t.cn[parent], end)) \o RangeTextBackwards(t, parent, start, end - 1)

\* collapseTextRange with the loop run from end down to start.
collapseTextRangeBackwards(t, parent, start, end) ==
  LET text == RangeTextBackwards(t, parent, start, end)
      cn1 == Splice(t.cn[parent], start, (end - start) + 1, <<>>)
      tn == newTextNode(t)
  IN IF text # <<>>
     THEN [cn |-> [t.cn EXCEPT ![parent] = Splice(cn1, start, 0, <<tn>>)],
           pn |-> [t.pn EXCEPT ![tn] = parent],
           val |-> (tn :> text) @@ t.val]
     ELSE [t EXCEPT !.cn[parent] = cn1]

\* collapseTextRange with `splice(start, end - start)`: the last node of the
\* range stays.
collapseTextRangeLeavesLast(t, parent, start, end) ==
  LET text == RangeText(t, parent, start, end)
      cn1 == Splice(t.cn[parent], start, end - start, <<>>)
      tn == newTextNode(t)
  IN IF text # <<>>
     THEN [cn |-> [t.cn EXCEPT ![parent] = Splice(cn1, start, 0, <<tn>>)],
           pn |-> [t.pn EXCEPT ![tn] = parent],
           val |-> (tn :> text) @@ t.val]
     ELSE [t EXCEPT !.cn[parent] = cn1]

\* collapseTextRange(parent, start, end): splice the range out and, if its
\* text is not '', splice in a new text node that holds it.  The nodes of
\* the range keep their parentNode.
collapseTextRange(t, parent, start, end) ==
  LET text == RangeText(t, parent, start, end)
      cn1 == Splice(t.cn[parent], start, (end - start) + 1, <<>>)
      tn == newTextNode(t)
  IN IF text # <<>>
     THEN [cn |-> [t.cn EXCEPT ![parent] = Splice(cn1, start, 0, <<tn>>)],
           pn |-> [t.pn EXCEPT ![tn] = parent],
           val |-> (tn :> text) @@ t.val]
     ELSE [t EXCEPT !.cn[parent] = cn1]

RECURSIVE normalize(_, _), normalizeFrom(_, _, _, _)
\* normalize(node)
normalize(t, node) ==
  IF ~(isElement(node) \/ isDocument(node) \/ isDocumentFragment(node)) THEN t
  ELSE normalizeFrom(t, node, Len(t.cn[node]) - 1, -1)

\* The loop of normalize at index i, with textRangeStart.
normalizeFrom(t, node, i, textRangeStart) ==
  IF i < 0 THEN t
  ELSE LET n == At(t.cn[node], i)
       IN IF isTextNode(n)
          THEN LET start == IF textRangeStart = -1 THEN i ELSE textRangeStart
                   t1 == IF i = 0 THEN collapseTextRange(t, node, 0, start) ELSE t
               IN normalizeFrom(t1, node, i - 1, start)
          ELSE LET t1 == normalize(t, n)
                   t2 == IF textRangeStart > -1
                         THEN collapseTextRange(t1, node, i + 1, textRangeStart)
                         ELSE t1
               IN normalizeFrom(t2, node, i - 1, -1)

(***************************************************************************)
(* Where the walks end.  The iterators do not check for cycles: on a       *)
(* cycle a walk never returns, and there is no outcome to record.          *)
(***************************************************************************)
ChildSet(t, acc, n) ==
  LET c == getChildNodes(acc, t, n)
  IN IF c.defined THEN {c.nodes[i] : i \in 1 .. Len(c.nodes)} ELSE {}

RECURSIVE Bounded(_, _, _, _)
\* Every path of children from n has at most k nodes.
Bounded(t, acc, n, k) ==
  k > 0 /\ \A c \in ChildSet(t, acc, n) : Bounded(t, acc, c, k - 1)

\* No path of children from n comes back to a node it has passed.
WalkEnds(t, acc, n) == Bounded(t, acc, n, NumNodes)

RECURSIVE Chain(_, _, _)
\* n and the nodes above it by parentNode, at most k + 1 of them.
Chain(t, n, k) ==
  IF ~Truthy(n) THEN <<>>
  ELSE IF k = 0 THEN <<n>>
  ELSE <<n>> \o Chain(t, t.pn[n], k - 1)

\* Following parentNode from n ends.
ClimbEnds(t, n) == Len(Chain(t, n, NumNodes)) <= NumNodes

\* The walks iteratePrior(n) makes end: the climb, and the walk below every
\* node of the climb.
PriorEnds(t, n) ==
  /\ ClimbEnds(t, n)
  /\ \A i \in 1 .. Len(Chain(t, n, NumNodes)) :
       WalkEnds(t, "defaultChildNodes", Chain(t, n, NumNodes)[i])

(***************************************************************************)
(* The calls.  pre and last observe one call: the tree it started from,    *)
(* its arguments and its outcome.  A call is made when no other call is    *)
(* under observation.                                                      *)
(***************************************************************************)
NoArg == NULL

Call(op, a, b, c, predicate, out) ==
  [op |-> op, a |-> a, b |-> b, c |-> c, predicate |-> predicate,
   threw |-> out.threw, ret |-> out.ret, seq |-> out.seq]

Idle == last.op = "none"

\* The nodes as the constructors and the parser leave them: no children,
\* parentNode null, the parser's document without a parentNode field.
Init ==
  /\ childNodes = [n \in Node |-> <<>>]
  /\ parentNode = [n \in Node |-> IF nodeName(n) = "#document" THEN UNDEFINED ELSE NULL]
  /\ value = [n \in {m \in Node : isTextNode(m)} |-> <<>>]
  /\ pre = [cn |-> childNodes, pn |-> parentNode]
  /\ last = Call("none", NoArg, NoArg, NoArg, {}, Ret(UNDEFINED))

\* A call that raises before it has written anything.
Throws(op, a, b, c) ==
  /\ Idle
  /\ pre' = Tree
  /\ last' = Call(op, a, b, c, {}, Raise)
  /\ UNCHANGED <<childNodes, parentNode, value>>

\* A call that leaves the tree t.
Returns(op, a, b, c, t) ==
  /\ Idle
  /\ pre' = Tree
  /\ last' = Call(op, a, b, c, {}, Ret(UNDEFINED))
  /\ childNodes' = t.cn
  /\ parentNode' = t.pn
  /\ UNCHANGED value

\* A call that only reads the tree.
Reads(op, a, b, predicate, out) ==
  /\ Idle
  /\ pre' = Tree
  /\ last' = Call(op, a, b, NoArg, predicate, out)
  /\ UNCHANGED <<childNodes, parentNode, value>>

\* remove(node).  parent.childNodes of a parent without the field raises.
RemoveCall(node) ==
  /\ Idle
  /\ IF Truthy(parentNode[node]) /\ ~HasChildNodes(parentNode[node])
     THEN Throws("remove", node, NoArg, NoArg)
     ELSE Returns("remove", node, NoArg, NoArg, remove(Tree, node))

\* append(parent, newNode).  parent.childNodes.length raises on a text node.
AppendCall(parent, newNode) ==
  /\ Idle
  /\ IF ~HasChildNodes(parent)
     THEN Throws("append", parent, newNode, NoArg)
     ELSE Returns("append", parent, newNode, NoArg, append(Tree, parent, newNode))

\* insertBefore(parent, oldNode, newNode).  parent.childNodes.indexOf raises
\* on a text node.
InsertBeforeCall(parent, oldNode, newNode) ==
  /\ Idle
  /\ IF ~HasChildNodes(parent)
     THEN Throws("insertBefore", parent, oldNode, newNode)
     ELSE Returns("insertBefore", parent, oldNode, newNode,
                  insertBefore(Tree, parent, oldNode, newNode))

\* replace(oldNode, newNode).  parent.childNodes raises when oldNode has no
\* parent.
ReplaceCall(oldNode, newNode) ==
  /\ Idle
  /\ IF ~Truthy(parentNode[oldNode]) \/ ~HasChildNodes(parentNode[oldNode])
     THEN Throws("replace", oldNode, newNode, NoArg)
     ELSE Returns("replace", oldNode, newNode, NoArg, replace(Tree, oldNode, newNode))

\* Array.from(depthFirst(node, getChildNodes))
DepthFirstCall(node, acc) ==
  /\ Idle
  /\ WalkEnds(Tree, acc, node)
  /\ Reads("depthFirst", node, acc, {}, RetSeq(depthFirst(Tree, node, acc)))

NodeWalkPriorCall(node, predicate) ==
  /\ Idle
  /\ PriorEnds(Tree, node)
  /\ Reads("nodeWalkPrior", node, NoArg, predicate, nodeWalkPrior(Tree, node, predicate))

NodeWalkAllPriorCall(node, predicate) ==
  /\ Idle
  /\ PriorEnds(Tree, node)
  /\ Reads("nodeWalkAllPrior", node, NoArg, predicate,
           nodeWalkAllPrior(Tree, node, predicate))

NodeWalkAncestorsCall(node, predicate, onNull) ==
  /\ Idle
  /\ ClimbEnds(Tree, node)
  /\ Reads("nodeWalkAncestors", node, NoArg, predicate,
           nodeWalkAncestors(Tree, node, predicate, onNull))

\* Array.from(ancestors(node)): what was yielded, and whether it raised.
AncestorsCall(node) ==
  /\ Idle
  /\ ClimbEnds(Tree, node)
  /\ Reads("ancestors", node, NoArg, {},
           [ret |-> NULL, seq |-> ancestors(Tree, node).seq,
            threw |-> ancestors(Tree, node).threw])

\* The array a caller passes as matches: none, or one holding node c.
Matches(c) == IF c = NoArg THEN <<>> ELSE <<c>>

\* A reading call that takes a matches array.
ReadsInto(op, a, b, c, predicate, out) ==
  /\ Idle
  /\ pre' = Tree
  /\ last' = Call(op, a, b, c, predicate, out)
  /\ UNCHANGED <<childNodes, parentNode, value>>

NodeWalkCall(node, predicate, acc) ==
  /\ Idle
  /\ WalkEnds(Tree, acc, node)
  /\ Reads("nodeWalk", node, acc, predicate, nodeWalk(Tree, node, predicate, acc))

NodeWalkAllCall(node, predicate, c, acc) ==
  /\ Idle
  /\ WalkEnds(Tree, acc, node)
  /\ ReadsInto("nodeWalkAll", node, acc, c, predicate,
               nodeWalkAll(Tree, node, predicate, Matches(c), acc))

QueryCall(node, predicate, acc) ==
  /\ Idle
  /\ WalkEnds(Tree, acc, node)
  /\ Reads("query", node, acc, predicate, query(Tree, node, predicate, acc))

QueryAllCall(node, predicate, c, acc) ==
  /\ Idle
  /\ WalkEnds(Tree, acc, node)
  /\ ReadsInto("queryAll", node, acc, c, predicate,
               queryAll(Tree, node, predicate, Matches(c), acc))

\* parentMatches(predicate)(node)
ParentMatchesCall(predicate, node, onNull) ==
  /\ Idle
  /\ ClimbEnds(Tree, node)
  /\ Reads("parentMatches", node, NoArg, predicate,
           parentMatches(Tree, predicate, node, onNull))

\* The observer lets go of the call it has seen.
Forget ==
  /\ ~Idle
  /\ pre' = Tree
  /\ last' = Call("none", NoArg, NoArg, NoArg, {}, Ret(UNDEFINED))
  /\ UNCHANGED <<childNodes, parentNode, value>>

\* The matches arguments tried: omitted, or an array that holds the document.
Into == {NoArg, 1}

Next ==
  \/ \E node \in Node : RemoveCall(node)
  \/ \E parent, newNode \in Node : AppendCall(parent, newNode)
  \/ \E parent, oldNode, newNode \in Node : InsertBeforeCall(parent, oldNode, newNode)
  \/ \E oldNode, newNode \in Node : ReplaceCall(oldNode, newNode)
  \/ \E node \in Node, acc \in GetChildNodes : DepthFirstCall(node, acc)
  \/ \E node \in Node, predicate \in Predicates : NodeWalkPriorCall(node, predicate)
  \/ \E node \in Node, predicate \in Predicates : NodeWalkAllPriorCall(node, predicate)
  \/ \E node \in Node, predicate \in Predicates, onNull \in OnNull :
       NodeWalkAncestorsCall(node, predicate, onNull)
  \/ \E node \in Node : AncestorsCall(node)
  \/ \E node \in Node, predicate \in Predicates, acc \in GetChildNodes :
       NodeWalkCall(node, predicate, acc)
  \/ \E node \in Node, predicate \in Predicates, c \in Into, acc \in GetChildNodes :
       NodeWalkAllCall(node, predicate, c, acc)
  \/ \E node \in Node, predicate \in Predicates, acc \in GetChildNodes :
       QueryCall(node, predicate, acc)
  \/ \E node \in Node, predicate \in Predicates, c \in Into, acc \in GetChildNodes :
       QueryAllCall(node, predicate, c, acc)
  \/ \E node \in Node, predicate \in Predicates, onNull \in OnNull :
       ParentMatchesCall(predicate, node, onNull)
  \/ Forget

Spec == Init /\ [][Next]_vars

(***************************************************************************)
(* A forest of text: the calls on trees that hold several text nodes.  It  *)
(* starts from the trees that the constructors and append build with a     *)
(* root, an element below it or detached, and text nodes under the two.    *)
(***************************************************************************)
\* The text values the text nodes start with: '', 'a' and 'b'.
Values == {<<>>, <<"a">>, <<"b">>}

\* The values hasTextValue is asked for.
AskedValues == Values \cup {<<"a", "b">>}

\* The text nodes built at the start.
FirstTexts == {n \in Node : isTextNode(n)} \cup ((NumNodes + 1) .. (NumNodes + NumTexts))

\* The roots tried: a document, a fragment, an element.
Roots == {n \in Node : isDocument(n) \/ isDocumentFragment(n) \/ nodeName(n) = "div"}

\* The element below the root.
Inner == CHOOSE n \in Node : nodeName(n) = "template"

\* The values of s, as a set.
Range(s) == {s[i] : i \in 1 .. Len(s)}

\* The sequences of distinct members of S.
Arrangements(S) ==
  {s \in UNION {[1 .. k -> S] : k \in 0 .. Cardinality(S)} :
     \A i, j \in 1 .. Len(s) : i # j => s[i] # s[j]}

\* The nodes that are built: Node and the text nodes that have a value.
Built == Node \cup DOMAIN value

TextInit ==
  \E root \in Roots, outer \in Arrangements({Inner} \cup FirstTexts),
     inner \in Arrangements(FirstTexts), v \in [FirstTexts -> Values] :
    /\ Range(outer) \cap Range(inner) = {}
    /\ childNodes = [n \in AllNode |->
                       IF n = root THEN outer ELSE IF n = Inner THEN inner ELSE <<>>]
    /\ parentNode = [n \in AllNode |->
                       IF n \in Range(outer) THEN root
                       ELSE IF n \in Range(inner) THEN Inner
                       ELSE IF isDocument(n) THEN UNDEFINED ELSE NULL]
    /\ value = v
    /\ pre = [cn |-> childNodes, pn |-> parentNode]
    /\ last = Call("none", NoArg, NoArg, NoArg, {}, Ret(UNDEFINED))

\* The text nodes at and below node.
TextsBelow(t, node) ==
  dom5NodeWalkAll(t, node, {n \in DOMAIN t.pn : isTextNode(n)}, <<>>)

\* newTextNode has nodes left for normalize(node) and for one more
\* normalize: it has built no node so far.
PoolHolds(t, node) ==
  /\ FreshNode \cap DOMAIN t.val = {}
  /\ NumFresh >= 2 * Len(TextsBelow(t, node))

\* normalize(node)
NormalizeCall(node) ==
  /\ Idle
  /\ PoolHolds(TextTree, node)
  /\ pre' = TextTree
  /\ last' = Call("normalize", node, NoArg, NoArg, {}, Ret(UNDEFINED))
  /\ childNodes' = normalize(TextTree, node).cn
  /\ parentNode' = normalize(TextTree, node).pn
  /\ value' = normalize(TextTree, node).val

\* hasTextValue(v)(node)
HasTextValueCall(v, node) ==
  /\ Idle
  /\ pre' = TextTree
  /\ last' = Call("hasTextValue", node, v, NoArg, {}, Ret(hasTextValue(TextTree, v, node)))
  /\ UNCHANGED <<childNodes, parentNode, value>>

\* The observer lets go of a call; a remove is the last call it follows.
TextForget ==
  /\ last.op # "remove"
  /\ Forget

TextNext ==
  \/ \E node \in Built : NormalizeCall(node)
  \/ \E node \in DOMAIN value : RemoveCall(node)
  \/ \E v \in AskedValues, node \in Built : HasTextValueCall(v, node)
  \/ TextForget

TextSpec == TextInit /\ [][TextNext]_vars

(***************************************************************************)
(* The claims.                                                             *)
(***************************************************************************)
\* How often x occurs in s.
Occurrences(s, x) == Cardinality({i \in 1 .. Len(s) : s[i] = x})

\* s without every occurrence of x.
Without(s, x) == SelectSeq(s, LAMBDA v : v # x)

Mutation == {"remove", "append", "insertBefore", "replace"}

\* C1: after any sequence of append, insertBefore, replace and remove calls
\* on the nodes of the forest, every member of P.childNodes has parentNode
\* P, every node with parentNode P occurs exactly once in P.childNodes,
\* and no node is in two children sequences or twice in one.
C1_ParentsAndChildrenAgree ==
  /\ \A p \in Node : \A i \in 1 .. Len(childNodes[p]) :
       parentNode[childNodes[p][i]] = p
  /\ \A n \in Node : Truthy(parentNode[n]) =>
       Occurrences(childNodes[parentNode[n]], n) = 1
  /\ \A n \in Node : ~Truthy(parentNode[n]) =>
       \A p \in Node : Occurrences(childNodes[p], n) = 0
  /\ \A n \in Node :
       Cardinality({<<p, i>> \in Node \X (1 .. NumNodes) :
                      i <= Len(childNodes[p]) /\ childNodes[p][i] = n}) <= 1

\* A node that had a parent has been appended to another parent, which now
\* has two children or more.
C1_Witness ==
  /\ last.op = "append" /\ ~last.threw
  /\ Truthy(pre.pn[last.b]) /\ pre.pn[last.b] # last.a
  /\ parentNode[last.b] = last.a
  /\ Len(childNodes[last.a]) >= 2

\* What C2 says of a fragment f with k children inserted into p at index i.
FragmentSpliced(p, i, f) ==
  LET k == Len(pre.cn[f])
  IN /\ Len(childNodes[p]) = Len(pre.cn[p]) + k
     /\ \A j \in 1 .. k :
          /\ i + j <= Len(childNodes[p])
          /\ childNodes[p][i + j] = pre.cn[f][j]
          /\ parentNode[pre.cn[f][j]] = p
     /\ Occurrences(childNodes[p], f) = 0
     /\ Len(childNodes[f]) = 0

\* The last call has inserted fragment last.c or last.b into last.a at an
\* index of last.a's children (insertBefore: at its reference child).
FragmentInserted ==
  /\ ~last.threw
  /\ \/ last.op = "append" /\ isDocumentFragment(last.b)
     \/ /\ last.op = "insertBefore" /\ isDocumentFragment(last.c)
        /\ IndexOf(pre.cn[last.a], last.b) >= 0

InsertedFragment == IF last.op = "append" THEN last.b ELSE last.c

InsertionIndex ==
  IF last.op = "append" THEN Len(pre.cn[last.a]) ELSE IndexOf(pre.cn[last.a], last.b)

ChainSet(t, n) == {Chain(t, n, NumNodes)[i] : i \in 1 .. Len(Chain(t, n, NumNodes))}

\* No node of tree t is below itself, and every climb ends.
AcyclicTree(t) ==
  \A n \in Node : WalkEnds(t, "defaultChildNodes", n) /\ ClimbEnds(t, n)

\* replace(oldNode, newNode) has returned, in a tree without cycles, for an
\* oldNode that had a next sibling and a newNode that is neither oldNode nor
\* oldNode's parent nor above it.
ReplacedBeforeSibling ==
  /\ last.op = "replace" /\ ~last.threw
  /\ AcyclicTree(pre)
  /\ last.b \notin {last.a} \cup ChainSet(pre, pre.pn[last.a])
  /\ IndexOf(pre.cn[pre.pn[last.a]], last.a) + 1 < Len(pre.cn[pre.pn[last.a]])

\* C3: the tree after replace(oldNode, newNode), for an oldNode with parent
\* P and another node newNode (detached, under another parent or another
\* child of P), is the tree after remove(oldNode) followed by
\* insertBefore(P, oldNode's former next sibling, newNode): the same
\* children sequences and the same parentNode for every node.
C3_ReplaceIsRemoveThenInsertBefore ==
  ReplacedBeforeSibling =>
    LET p == pre.pn[last.a]
        next == At(pre.cn[p], IndexOf(pre.cn[p], last.a) + 1)
    IN Tree = insertBefore(remove(pre, last.a), p, next, last.b)

\* C4: remove(node) on a node with parent P deletes that node and no other
\* from P's children, keeps the order and the parentNode of the others and
\* clears node's parentNode; on a node without a parent it changes no
\* children sequence.
C4_RemoveFrame ==
  (last.op = "remove" /\ ~last.threw) =>
    LET node == last.a
        p == pre.pn[node]
    IN /\ ~Truthy(parentNode[node])
       /\ \A n \in Node \ {node} : parentNode[n] = pre.pn[n]
       /\ \A q \in Node : q # p => childNodes[q] = pre.cn[q]
       /\ Truthy(p) =>
            /\ childNodes[p] = Without(pre.cn[p], node)
            /\ Len(childNodes[p]) = Len(pre.cn[p]) - 1

\* The middle one of three children has been removed.
C4_Witness ==
  /\ last.op = "remove" /\ ~last.threw
  /\ Truthy(pre.pn[last.a])
  /\ Len(pre.cn[pre.pn[last.a]]) = 3
  /\ IndexOf(pre.cn[pre.pn[last.a]], last.a) = 1

\* C5: when insertBefore is given a reference child that is not among the
\* parent's children, or remove, replace, nodeWalkPrior or nodeWalkAllPrior
\* a node whose parentNode is set and that is not among that parent's
\* children, the call raises an error instead of returning.
C5_AbsentNodeRaises ==
  /\ (/\ last.op = "insertBefore"
      /\ IndexOf(pre.cn[last.a], last.b) = -1
      /\ Cardinality({last.a, last.b, last.c}) = 3
      /\ AcyclicTree(pre) /\ AcyclicTree(Tree))
       => last.threw
  /\ (/\ last.op \in {"remove", "replace", "nodeWalkPrior", "nodeWalkAllPrior"}
      /\ Truthy(pre.pn[last.a])
      /\ IndexOf(pre.cn[pre.pn[last.a]], last.a) = -1)
       => last.threw

\* C6: after any sequence of append, insertBefore, replace and remove calls
\* on the nodes of an acyclic forest, no node is below itself and every
\* climb along parentNode ends at a node without a parent.
C6_StaysAcyclic == AcyclicTree(Tree)

RECURSIVE Closure(_, _, _, _)
Closure(t, acc, S, k) ==
  IF k = 0 THEN S
  ELSE Closure(t, acc, S \cup UNION {ChildSet(t, acc, m) : m \in S}, k - 1)

\* The nodes below n by the accessor's children.
Descendants(t, acc, n) == Closure(t, acc, ChildSet(t, acc, n), NumNodes)

\* n and the nodes below it.
Subtree(t, acc, n) == {n} \cup Descendants(t, acc, n)

\* The place of x in s, 0 when it is not there.
Position(s, x) == IndexOf(s, x) + 1

\* C7: on an acyclic tree and with either child accessor, depthFirst(node)
\* yields node first, every node of the tree exactly once and no other (as
\* many as the tree has nodes), a parent before any of its descendants, and
\* the subtrees of siblings in child order.
C7_DepthFirstIsDocumentOrder ==
  (last.op = "depthFirst") =>
    LET s == last.seq
        acc == last.b
        T == Subtree(pre, acc, last.a)
    IN /\ ~last.threw
       /\ Len(s) >= 1 /\ s[1] = last.a
       /\ \A n \in T : Occurrences(s, n) = 1
       /\ Len(s) = Cardinality(T)
       /\ \A i, j \in 1 .. Len(s) : s[j] \in Descendants(pre, acc, s[i]) => i < j
       /\ \A p \in T :
            LET c == getChildNodes(acc, pre, p).nodes
            IN \A a, b \in 1 .. Len(c) : a < b =>
                 \A x \in Subtree(pre, acc, c[a]), y \in Subtree(pre, acc, c[b]) :
                   Position(s, x) < Position(s, y)

\* A walk with childNodesIncludeTemplate of four nodes or more that passes
\* through the template into its content, which has two children.
C7_Witness ==
  /\ last.op = "depthFirst" /\ last.b = "childNodesIncludeTemplate"
  /\ Len(last.seq) >= 4
  /\ \E i \in 2 .. Len(last.seq) :
       /\ nodeName(last.seq[i]) = "template"
       /\ Len(pre.cn[getTemplateContent(last.seq[i])]) = 2

\* The root above n: the last node of the climb from n.
Root(t, n) == Chain(t, n, NumNodes)[Len(Chain(t, n, NumNodes))]

\* s[1 .. k] backwards.
ReversedPrefix(s, k) == [i \in 1 .. k |-> s[k + 1 - i]]

\* Document order of the tree n is in: depthFirst from its root.
DocumentOrder(t, n) == depthFirst(t, Root(t, n), "defaultChildNodes")

\* The nodes strictly before n in document order, the closest first.
Priors(t, n) ==
  ReversedPrefix(DocumentOrder(t, n), Position(DocumentOrder(t, n), n) - 1)

\* C8: for every node N of a tree with root R, nodeWalkAllPrior(N,
\* always-true) returns N followed by N's priors, the closest first: the
\* prefix of depthFirst(R) up to and including N, backwards.
C8_AllPriorIsReversedPrefix ==
  (last.op = "nodeWalkAllPrior" /\ last.predicate = Node) =>
    /\ ~last.threw
    /\ last.seq = <<last.a>> \o Priors(pre, last.a)

\* The first value of s that is in the predicate, UNDEFINED if there is none.
FirstMatch(s, predicate) ==
  IF \E i \in 1 .. Len(s) : s[i] \in predicate
  THEN s[CHOOSE i \in 1 .. Len(s) :
           s[i] \in predicate /\ \A j \in 1 .. (i - 1) : s[j] \notin predicate]
  ELSE UNDEFINED

C10_NearestStrictAncestor ==
  (last.op = "nodeWalkAncestors") =>
    /\ ~last.threw
    /\ last.ret = FirstMatch(Tail(Chain(pre, last.a, NumNodes)), last.predicate)

\* C11: for every node N of a consistent tree, also one built by a
\* constructor or detached by remove, ancestors(N) ends without raising and
\* yields N, then each successive parent up to the root, which has no
\* parent: depth(N) + 1 nodes, all of them nodes of the tree.
C11_AncestorsClimbToRoot ==
  (last.op = "ancestors") =>
    /\ ~last.threw
    /\ last.seq = Chain(pre, last.a, NumNodes)
    /\ \A i \in 1 .. Len(last.seq) : last.seq[i] \in Node
    /\ ~Truthy(pre.pn[last.seq[Len(last.seq)]])

\* The values after the first k of s.
After(s, k) == SubSeq(s, k + 1, Len(s))

\* r holds exactly the values of w that are in the predicate, each once, in
\* the order of w.
IsFilterOf(r, w, predicate) ==
  /\ \A i \in 1 .. Len(r) : r[i] \in predicate /\ Occurrences(w, r[i]) >= 1
  /\ \A i \in 1 .. Len(w) : w[i] \in predicate => Occurrences(r, w[i]) = 1
  /\ \A i, j \in 1 .. Len(r) : i < j => Position(w, r[i]) < Position(w, r[j])

\* C12: nodeWalkAll(node, p, into, accessor) returns into's contents as a
\* prefix followed by exactly the nodes of depthFirst(node, accessor) that
\* satisfy p, in depth-first order; nodeWalk(node, p, accessor) returns the
\* first of those (node itself when it matches), or null when there is none.
C12_WalksFilterDepthFirst ==
  /\ (last.op = "nodeWalkAll") =>
       /\ ~last.threw
       /\ Len(last.seq) >= Len(Matches(last.c))
       /\ SubSeq(last.seq, 1, Len(Matches(last.c))) = Matches(last.c)
       /\ IsFilterOf(After(last.seq, Len(Matches(last.c))),
                     depthFirst(pre, last.a, last.b), last.predicate)
  /\ (last.op = "nodeWalk") =>
       /\ ~last.threw
       /\ LET first == FirstMatch(depthFirst(pre, last.a, last.b), last.predicate)
          IN last.ret = IF first = UNDEFINED THEN NULL ELSE first
       /\ last.a \in last.predicate => last.ret = last.a

\* nodeWalkAll was given an array holding the document and has added three
\* nodes or more of a walk to it.
C12_Witness ==
  /\ last.op = "nodeWalkAll" /\ ~last.threw
  /\ last.c # NoArg
  /\ Len(last.seq) >= 4
  /\ last.seq[1] = last.c
  /\ last.seq[2] = last.a

\* The elements among the nodes.
Elements == {n \in Node : isElement(n)}

\* C13: query and queryAll return only elements, and exactly what nodeWalk
\* and nodeWalkAll return for the predicate 'is element and p' over the same
\* walk: an element that satisfies p below nodes that do not is found, and a
\* node that satisfies p and is no element is not returned.
C13_QueryIsWalkOverElements ==
  /\ (last.op = "query") =>
       /\ ~last.threw
       /\ last.ret = nodeWalk(pre, last.a, last.predicate \cap Elements, last.b).ret
       /\ last.ret # NULL => last.ret \in Elements \cap last.predicate
       /\ (Subtree(pre, last.b, last.a) \cap Elements \cap last.predicate # {})
            => last.ret # NULL
  /\ (last.op = "queryAll") =>
       /\ ~last.threw
       /\ last.seq = nodeWalkAll(pre, last.a, last.predicate \cap Elements,
                                 Matches(last.c), last.b).seq
       /\ \A i \in (Len(Matches(last.c)) + 1) .. Len(last.seq) :
            last.seq[i] \in Elements \cap last.predicate
       /\ \A n \in Subtree(pre, last.b, last.a) \cap Elements \cap last.predicate :
            Occurrences(After(last.seq, Len(Matches(last.c))), n) = 1

\* query from a node that is no element has found an element two levels
\* down, below an element the predicate does not hold of.
C13_Witness ==
  /\ last.op = "query" /\ ~last.threw
  /\ ~isElement(last.a)
  /\ last.ret \in Elements
  /\ Truthy(pre.pn[last.ret]) /\ pre.pn[last.ret] # last.a
  /\ isElement(pre.pn[last.ret])

\* The nodes inside the content fragment of a template.
InTemplateContent(t) ==
  UNION {Descendants(t, "defaultChildNodes", getTemplateContent(n)) :
           n \in {m \in Node : nodeName(m) = "template"}}

\* The last call is a walk with the default accessor from a node that is
\* neither a content fragment nor inside one.
DefaultWalkOutsideContent ==
  /\ last.op \in {"depthFirst", "nodeWalk", "nodeWalkAll", "query", "queryAll"}
  /\ last.b = "defaultChildNodes"
  /\ last.a \notin InTemplateContent(pre)
  /\ \A m \in Node : nodeName(m) = "template" => last.a # getTemplateContent(m)

\* What the last walk has yielded or returned, without the matches it was given.
Yielded ==
  IF last.op \in {"nodeWalk", "query"}
  THEN (IF last.ret \in Node THEN <<last.ret>> ELSE <<>>)
  ELSE After(last.seq, IF last.op = "depthFirst" THEN 0 ELSE Len(Matches(last.c)))

\* C14: with the default accessor, depthFirst, nodeWalk, nodeWalkAll, query
\* and queryAll from a node outside a template's content never yield or
\* return a node inside a template's content fragment; with
\* childNodesIncludeTemplate the walk has, right after a template, the
\* content fragment's children and their descendants in document order.
C14_DefaultWalkStaysOutOfContent ==
  /\ DefaultWalkOutsideContent =>
       \A i \in 1 .. Len(Yielded) : Yielded[i] \notin InTemplateContent(pre)
  /\ (last.op = "depthFirst" /\ last.b = "childNodesIncludeTemplate") =>
       \A i \in 1 .. Len(last.seq) : nodeName(last.seq[i]) = "template" =>
         LET w == depthFirst(pre, getTemplateContent(last.seq[i]),
                             "childNodesIncludeTemplate")
         IN /\ i + Len(w) - 1 <= Len(last.seq)
            /\ SubSeq(last.seq, i + 1, i + Len(w) - 1) = Tail(w)

\* A default walk from the document has passed a template whose content is
\* not empty.
C14_Witness ==
  /\ DefaultWalkOutsideContent /\ last.op = "nodeWalkAll"
  /\ last.predicate = Node
  /\ \E i \in 1 .. Len(Yielded) :
       /\ nodeName(Yielded[i]) = "template"
       /\ Len(pre.cn[getTemplateContent(Yielded[i])]) >= 1
  /\ Len(Yielded) >= 3

\* C17: for every predicate p and node n, also a node without a parent that
\* a constructor built or remove detached, parentMatches(p)(n) returns true
\* iff p holds of some strict ancestor of n (n itself is not tested, p is
\* handed nodes of the tree only), and false when n has no parent.
C17_SomeStrictAncestorMatches ==
  (last.op = "parentMatches") =>
    /\ ~last.threw
    /\ last.ret = (\E m \in ChainSet(pre, pre.pn[last.a]) : m \in last.predicate)

\* insertBefore(P, R, newNode) has returned, in a tree without cycles, for a
\* child R of P and a newNode that is no fragment and neither R nor P nor
\* above P.
InsertedBeforeChild ==
  /\ last.op = "insertBefore" /\ ~last.threw
  /\ AcyclicTree(pre)
  /\ IndexOf(pre.cn[last.a], last.b) >= 0
  /\ ~isDocumentFragment(last.c)
  /\ last.c \notin {last.b} \cup ChainSet(pre, last.a)

\* C19: for every parent P, reference child R of P and newNode that is no
\* fragment and not R (detached, under another parent or a child of P at
\* any place), after insertBefore(P, R, newNode) newNode is the child of P
\* right before R, and the other children of P are in the order they were.
C19_NewNodeRightBeforeReference ==
  InsertedBeforeChild =>
    /\ IndexOf(childNodes[last.a], last.c) >= 0
    /\ IndexOf(childNodes[last.a], last.c) + 1 = IndexOf(childNodes[last.a], last.b)
    /\ Without(childNodes[last.a], last.c) = Without(pre.cn[last.a], last.c)

\* A child as normalize may keep it: a node that is not text as itself, a
\* text node as its value.
Item(t, n) ==
  IF isTextNode(n) THEN [node |-> NULL, text |-> t.val[n]]
  ELSE [node |-> n, text |-> <<>>]

Items(t, s) == [i \in 1 .. Len(s) |-> Item(t, s[i])]

RECURSIVE Merged(_)
\* Every maximal run of text items as one text item, their values joined.
Merged(s) ==
  IF Len(s) <= 1 THEN s
  ELSE IF s[1].node = NULL /\ s[2].node = NULL
  THEN Merged(<<[node |-> NULL, text |-> s[1].text \o s[2].text]>> \o SubSeq(s, 3, Len(s)))
  ELSE <<s[1]>> \o Merged(Tail(s))

\* s without the text items whose value is ''.
NotEmpty(s) == SelectSeq(s, LAMBDA x : x.node # NULL \/ x.text # <<>>)

\* The nodes at and below node that normalize(node) works on.
Normalized(t, node) ==
  {d \in Subtree(t, "defaultChildNodes", node) : ~isTextNode(d)}

\* No two adjacent children of d are text nodes, and d's children have d as
\* their parentNode.
NoAdjacentText(d) ==
  /\ \A i \in 1 .. (Len(childNodes[d]) - 1) :
       ~(isTextNode(childNodes[d][i]) /\ isTextNode(childNodes[d][i + 1]))
  /\ \A i \in 1 .. Len(childNodes[d]) : parentNode[childNodes[d][i]] = d

\* C15 as claimed: after normalize(node) on an element, document or
\* fragment, in node and every such descendant each maximal run of adjacent
\* text children is one text node that holds the run's values joined in
\* order, the other children are the same nodes in the same order, and no
\* two adjacent children are text nodes.
C15_RunsBecomeOneTextNode ==
  (last.op = "normalize" /\ ~isTextNode(last.a)) =>
    \A d \in Normalized(pre, last.a) :
      /\ Items(TextTree, childNodes[d]) = Merged(Items(pre, pre.cn[d]))
      /\ NoAdjacentText(d)

\* C15 as amended: the same, but a run whose joined value is '' is removed
\* and no text node takes its place.
C15_RunsBecomeOneTextNodeOrNone ==
  (last.op = "normalize" /\ ~isTextNode(last.a)) =>
    \A d \in Normalized(pre, last.a) :
      /\ Items(TextTree, childNodes[d]) = NotEmpty(Merged(Items(pre, pre.cn[d])))
      /\ NoAdjacentText(d)

\* normalize has made three children of text "a", text "b", an element and
\* a text that is not ''.
C15_Witness ==
  /\ last.op = "normalize" /\ ~isTextNode(last.a)
  /\ Len(pre.cn[last.a]) = 4 /\ Len(childNodes[last.a]) = 3
  /\ Items(pre, pre.cn[last.a])[1].text = <<"a">>
  /\ Items(pre, pre.cn[last.a])[2].text = <<"b">>
  /\ Items(pre, pre.cn[last.a])[3].node = Inner
  /\ Items(pre, pre.cn[last.a])[4].text # <<>>
  /\ Items(TextTree, childNodes[last.a])[1].text = <<"a", "b">>
  /\ Items(TextTree, childNodes[last.a])[3].text = Items(pre, pre.cn[last.a])[4].text

RECURSIVE Shape(_, _)
\* The structure of the tree at n: kinds, names, text values, child order.
Shape(t, n) ==
  [name |-> nodeName(n),
   text |-> IF isTextNode(n) THEN t.val[n] ELSE <<>>,
   kids |-> [i \in 1 .. Len(t.cn[n]) |-> Shape(t, t.cn[n][i])]]

\* C16: normalize applied to the result of normalize(T) gives a tree with
\* the structure of that result: the same kinds, names, text values and
\* child order.
C16_NormalizeIsIdempotent ==
  (last.op = "normalize") =>
    Shape(normalize(TextTree, last.a), last.a) = Shape(TextTree, last.a)

\* normalize has joined two text nodes, so the result it is applied to
\* again is another tree than the one it started from.
C16_Witness ==
  /\ last.op = "normalize"
  /\ Shape(TextTree, last.a) # Shape(pre, last.a)
  /\ \E i \in 1 .. Len(childNodes[last.a]) :
       /\ isTextNode(childNodes[last.a][i])
       /\ Len(value[childNodes[last.a][i]]) = 2
  /\ Len(childNodes[Inner]) = 1 /\ parentNode[Inner] = last.a

\* The values of the text nodes among node's own children, joined.
DirectText(t, node) == Join(t, SelectSeq(t.cn[node], isTextNode))

\* C18: hasTextValue(v)(node) on an element is true iff the values of the
\* element's own text children, joined, equal v (text inside nested elements
\* does not count); on a text node it is true iff the node's value equals v.
C18_DirectTextOnly ==
  (last.op = "hasTextValue") =>
    /\ isElement(last.a) => (last.ret = (DirectText(pre, last.a) = last.b))
    /\ isTextNode(last.a) => (last.ret = (pre.val[last.a] = last.b))

\* C20: after normalize(node) every node whose parentNode is P is among P's
\* children, the text nodes that normalize joined too; so a later remove of
\* such a text node deletes no other child of P.
C20_NoDanglingParent ==
  /\ (last.op = "normalize") =>
       \A n \in DOMAIN parentNode :
         Truthy(parentNode[n]) => Occurrences(childNodes[parentNode[n]], n) = 1
  /\ (last.op = "remove" /\ ~last.threw /\ Truthy(pre.pn[last.a])) =>
       childNodes[pre.pn[last.a]] = Without(pre.cn[pre.pn[last.a]], last.a)

====
